---- MODULE Spec2Model ----
(***************************************************************************)
(* A model of main.py: the Vec3 / Color / Point3 / Ray library, ray_color  *)
(* and the render program under `if __name__ == "__main__"`.               *)
(*                                                                         *)
(* Numbers.  A Python float or int is modelled by the exact rational it    *)
(* denotes, <<n, d>> with d > 0 in lowest terms.  +, -, * and / are exact; *)
(* math.sqrt, the one operation of the program whose result need not be    *)
(* rational, is rounded down to a multiple of 1 / SqrtDen (exact on the    *)
(* squares of such multiples, so on the length 1 of the straight-up ray;   *)
(* elsewhere a byte write_color prints can differ by one from the byte of  *)
(* the float computation).  int() truncates toward zero.  Whether a scalar *)
(* ARGUMENT is an int or a float is kept (the isinstance asserts read it); *)
(* for a vector's components it is not (nothing reads it).                 *)
(*                                                                         *)
(* Streams.  sys.stdout and sys.stderr are append-only; each is held as    *)
(* the lines at its head (the first HeadKept), its line count and its last *)
(* line.                                                                   *)
(***************************************************************************)
EXTENDS Integers, Sequences, FiniteSets, TLC

VARIABLES pc, i, j, fds, heap, call, ret

vars == <<pc, i, j, fds, heap, call, ret>>

\* ------------------------------------------------------------- bounds
\* math.sqrt is rounded down to a multiple of 1 / SqrtDen.
SqrtDen == 64
\* Lines kept at the head of each stream.
HeadKept == 3
\* Components of the vectors the library is exercised on are k / CompDen.
CompDen == 2

\* ---------------------------------------------------------- rationals
Abs(x) == IF x < 0 THEN -x ELSE x

RECURSIVE GCD(_, _)
GCD(a, b) == IF b = 0 THEN a ELSE GCD(b, a % b)

\* n / d in lowest terms, d > 0.
Q(n, d) ==
  LET g == GCD(Abs(n), d)
  IN  <<n \div g, d \div g>>

QZero == <<0, 1>>
QOne == <<1, 1>>

QAdd(a, b) ==
  IF a[2] = b[2] THEN Q(a[1] + b[1], a[2])
  ELSE LET g == GCD(a[2], b[2])
       IN  Q(a[1] * (b[2] \div g) + b[1] * (a[2] \div g), (a[2] \div g) * b[2])

QNeg(a) == <<-a[1], a[2]>>

QSub(a, b) == QAdd(a, QNeg(b))

QMul(a, b) ==
  LET g1 == GCD(Abs(a[1]), b[2])
      g2 == GCD(Abs(b[1]), a[2])
  IN  <<(a[1] \div g1) * (b[1] \div g2), (a[2] \div g2) * (b[2] \div g1)>>

\* 1 / a, for a # 0.
QInv(a) == IF a[1] > 0 THEN <<a[2], a[1]>> ELSE <<-a[2], -a[1]>>

QLt(a, b) == a[1] * b[2] < b[1] * a[2]

QAbs(a) == <<Abs(a[1]), a[2]>>

\* int(x): truncation toward zero.
PyInt(a) == IF a[1] >= 0 THEN a[1] \div a[2] ELSE -((-a[1]) \div a[2])

\* The largest r in lo .. hi - 1 with r * r <= m, given lo * lo <= m < hi * hi.
RECURSIVE ISqrt(_, _, _)
ISqrt(lo, hi, m) ==
  IF hi - lo <= 1 THEN lo
  ELSE LET mid == (lo + hi) \div 2
       IN  IF mid * mid <= m THEN ISqrt(mid, hi, m) ELSE ISqrt(lo, mid, m)

\* math.sqrt(a) for a >= 0: the largest multiple of 1 / SqrtDen whose square
\* is at most a.  m = floor(a * SqrtDen^2), one factor SqrtDen at a time.
MathSqrt(a) ==
  LET t == a[1] * SqrtDen
      m == (t \div a[2]) * SqrtDen + ((t % a[2]) * SqrtDen) \div a[2]
  IN  Q(ISqrt(0, m + 1, m), SqrtDen)

\* ------------------------------------------------------ Python values
PyNone == [cls |-> "NoneType"]
PyFloat(q) == [cls |-> "float", q |-> q]
PyIntVal(k) == [cls |-> "int", q |-> <<k, 1>>]
\* A reference to the object at heap[id].
PyRef(id) == [cls |-> "ref", id |-> id]

\* How a call ends: it returns val, or raises exc.
Ok(v) == [exc |-> "none", val |-> v]
Raise(e) == [exc |-> e, val |-> PyNone]

\* `x` if it raised, else `F` of what it returned.
Then(x, F(_)) == IF x.exc # "none" THEN x ELSE F(x.val)

IsVec3(v) == v.cls \in {"Vec3", "Color", "Point3"}
IsColor(v) == v.cls = "Color"
IsScalar(v) == v.cls \in {"float", "int"}

\* ---------------------------------------------------------------- Vec3
Vec3(x, y, z) == [cls |-> "Vec3", e |-> <<x, y, z>>]
Color(x, y, z) == [cls |-> "Color", e |-> <<x, y, z>>]
Point3(x, y, z) == [cls |-> "Point3", e |-> <<x, y, z>>]

len_squared(self) ==
  QAdd(QAdd(QMul(self.e[1], self.e[1]), QMul(self.e[2], self.e[2])),
       QMul(self.e[3], self.e[3]))

length(self) == MathSqrt(len_squared(self))

\* self.e is a tuple: the item assignment self.e[0] += ... raises TypeError
\* before any component is changed.
Vec3_iadd(h, self, other) ==
  IF ~IsVec3(other) THEN [heap |-> h, out |-> Raise("AssertionError")]
  ELSE [heap |-> h, out |-> Raise("TypeError")]

Vec3_imul(h, self, t) ==
  IF t.cls # "float" THEN [heap |-> h, out |-> Raise("AssertionError")]
  ELSE [heap |-> h, out |-> Raise("TypeError")]

Vec3_add(self, other) ==
  IF ~IsVec3(other) THEN Raise("AssertionError")
  ELSE Ok(Vec3(QAdd(self.e[1], other.e[1]), QAdd(self.e[2], other.e[2]),
               QAdd(self.e[3], other.e[3])))

\* self.x * other with other a Vec3: float * Vec3 is not defined (TypeError).
Vec3_mul(self, other) ==
  IF ~(IsVec3(other) \/ IsScalar(other)) THEN Raise("AssertionError")
  ELSE IF IsVec3(other) THEN Raise("TypeError")
  ELSE Ok(Vec3(QMul(self.e[1], other.q), QMul(self.e[2], other.q),
               QMul(self.e[3], other.q)))

Vec3_sub(self, other) ==
  IF ~IsVec3(other) THEN Raise("AssertionError")
  ELSE Ok(Vec3(QSub(self.e[1], other.e[1]), QSub(self.e[2], other.e[2]),
               QSub(self.e[3], other.e[3])))

\* --------------------------------------------------------------- Color
\* The three bytes of write_color.  int(255.999 * c) is evaluated as
\* 255.999 = 256 - 1/1000, which keeps the intermediate products small:
\* for n >= 0, trunc((256 n - n / 1000) / d) = (256 n - ceil(n / 1000)) div d.
ColorByte_256(c) ==
  LET n == Abs(c[1])
      k == (256 * n) \div c[2]
  IN  IF c[1] >= 0 THEN k ELSE -k

ColorByte(c) ==
  LET n == Abs(c[1])
      k == (256 * n - ((n + 999) \div 1000)) \div c[2]
  IN  IF c[1] >= 0 THEN k ELSE -k

ColorLine(self) ==
  ToString(ColorByte(self.e[1])) \o " " \o ToString(ColorByte(self.e[2]))
    \o " " \o ToString(ColorByte(self.e[3]))

\* self.x * other with other a Color: float * Color is not defined (TypeError).
Color_mul(self, other) ==
  IF ~(IsColor(other) \/ IsScalar(other)) THEN Raise("AssertionError")
  ELSE IF IsColor(other) THEN Raise("TypeError")
  ELSE Ok(Color(QMul(self.e[1], other.q), QMul(self.e[2], other.q),
                QMul(self.e[3], other.q)))

Color_add(self, other) ==
  IF ~IsColor(other) THEN Raise("AssertionError")
  ELSE Ok(Color(QAdd(self.e[1], other.e[1]), QAdd(self.e[2], other.e[2]),
                QAdd(self.e[3], other.e[3])))

\* self * other and self + other, dispatched on the class of self.
Mul(self, other) ==
  IF IsColor(self) THEN Color_mul(self, other) ELSE Vec3_mul(self, other)

Add(self, other) ==
  IF IsColor(self) THEN Color_add(self, other) ELSE Vec3_add(self, other)

Reciprocal_zero_guard(t) ==
  IF t.q[1] = 0 THEN Ok(PyFloat(QZero)) ELSE Ok(PyFloat(QInv(t.q)))

\* 1.0 / t
Reciprocal(t) ==
  IF t.q[1] = 0 THEN Raise("ZeroDivisionError") ELSE Ok(PyFloat(QInv(t.q)))

Vec3_truediv(self, t) ==
  IF ~IsScalar(t) THEN Raise("AssertionError")
  ELSE Then(Reciprocal(t), LAMBDA r : Mul(self, r))

unit_vector(self) == Vec3_truediv(self, PyFloat(length(self)))

\* ----------------------------------------------------------------- Ray
Ray(origin, direction) == [origin |-> origin, direction |-> direction]

ray_color_swapped_blend(ray) ==
  Then(unit_vector(ray.direction), LAMBDA unit_direction :
    LET a == QMul(<<1, 2>>, QAdd(unit_direction.e[2], QOne))
    IN  Then(Mul(Color(QOne, QOne, QOne), PyFloat(a)), LAMBDA w :
        Then(Mul(Color(<<1, 2>>, <<7, 10>>, QOne), PyFloat(QSub(QOne, a))), LAMBDA s :
          Add(w, s))))

ray_color(ray) ==
  Then(unit_vector(ray.direction), LAMBDA unit_direction :
    LET a == QMul(<<1, 2>>, QAdd(unit_direction.e[2], QOne))
    IN  Then(Mul(Color(QOne, QOne, QOne), PyFloat(QSub(QOne, a))), LAMBDA w :
        Then(Mul(Color(<<1, 2>>, <<7, 10>>, QOne), PyFloat(a)), LAMBDA s :
          Add(w, s))))

\* ------------------------------------------------------------- streams
EmptyStream == [head |-> <<>>, n |-> 0, last |-> ""]

Append1(s, line) ==
  [head |-> IF Len(s.head) < HeadKept THEN Append(s.head, line) ELSE s.head,
   n |-> s.n + 1,
   last |-> line]

RECURSIVE AppendAll(_, _)
AppendAll(s, lines) ==
  IF lines = <<>> THEN s ELSE AppendAll(Append1(s, Head(lines)), Tail(lines))

\* print(..., file=fp): the lines of the text, in order, onto stream fp.
print(f, fp, lines) == [f EXCEPT ![fp] = AppendAll(f[fp], lines)]

log_to_stdout(f, msg) == print(f, "stdout", <<msg>>)

\* fp defaults to sys.stderr.
log(f, msg) == print(f, "stderr", <<msg>>)

\* fp defaults to sys.stdout.
write_color(f, self, fp) == print(f, fp, <<ColorLine(self)>>)

\* ------------------------------------------------------------ __main__
aspect_ratio == Q(16, 9)

image_width == 400

image_height ==
  LET h == PyInt(QMul(<<image_width, 1>>, QInv(aspect_ratio)))
  IN  IF h >= 1 THEN h ELSE 1

focal_length == QOne

viewport_height == <<2, 1>>

\* viewport_height * (float(image_width) / image_height)
viewport_width == QMul(viewport_height, Q(image_width, image_height))

camera_center == Point3(QZero, QZero, QZero)

viewport_u == Vec3(viewport_width, QZero, QZero)

viewport_v == Vec3(QZero, QNeg(viewport_height), QZero)

pixel_delta_u == Vec3_truediv(viewport_u, PyIntVal(image_width))

pixel_delta_v == Vec3_truediv(viewport_v, PyIntVal(image_height))

viewport_upper_left_no_focal ==
  Then(Vec3_truediv(viewport_u, PyIntVal(2)), LAMBDA b :
  Then(Vec3_sub(camera_center, b), LAMBDA c :
  Then(Vec3_truediv(viewport_v, PyIntVal(2)), LAMBDA d :
    Vec3_sub(c, d))))

viewport_upper_left ==
  Then(Vec3_sub(camera_center, Vec3(QZero, QZero, focal_length)), LAMBDA a :
  Then(Vec3_truediv(viewport_u, PyIntVal(2)), LAMBDA b :
  Then(Vec3_sub(a, b), LAMBDA c :
  Then(Vec3_truediv(viewport_v, PyIntVal(2)), LAMBDA d :
    Vec3_sub(c, d)))))

pixel00_loc ==
  Then(pixel_delta_u, LAMBDA du :
  Then(pixel_delta_v, LAMBDA dv :
  Then(viewport_upper_left, LAMBDA ul :
  Then(Add(du, dv), LAMBDA s :
  Then(Mul(s, PyFloat(<<1, 2>>)), LAMBDA h :
    Add(ul, h))))))

img_width == 256

img_height == 256

\* f"{x:.2f}" for x >= 0: x rounded to the nearest hundredth.
Format2f(x) ==
  LET c == (200 * x[1] + x[2]) \div (2 * x[2])
      f == c % 100
  IN  ToString(c \div 100) \o "." \o (IF f < 10 THEN "0" ELSE "") \o ToString(f)

DimensionsMsg ==
  "image_width=" \o ToString(image_width) \o ", image_height="
    \o ToString(image_height) \o ", aspect_ratio=" \o Format2f(aspect_ratio)

HeaderLines ==
  <<"P3", ToString(img_width) \o " " \o ToString(img_height), "255">>

ScanlinesMsg(row) == "Scanlines remaining: " \o ToString(img_height - row) \o " "

\* pixel00_loc + (pixel_delta_u * i) + (pixel_delta_v * j)
pixel_center(col, row) ==
  Then(pixel00_loc, LAMBDA p00 :
  Then(pixel_delta_u, LAMBDA du :
  Then(pixel_delta_v, LAMBDA dv :
  Then(Mul(du, PyIntVal(col)), LAMBDA a :
  Then(Add(p00, a), LAMBDA b :
  Then(Mul(dv, PyIntVal(row)), LAMBDA c :
    Add(b, c)))))))

ray_direction(col, row) ==
  Then(pixel_center(col, row), LAMBDA p : Vec3_sub(p, camera_center))

pixel_color(col, row) ==
  Then(ray_direction(col, row), LAMBDA d : ray_color(Ray(camera_center, d)))

\* An uncaught exception ends the run: the traceback goes to stderr.
Uncaught(exc) ==
  /\ pc' = "raised"
  /\ fds' = print(fds, "stderr", <<"Traceback (most recent call last):", exc>>)
  /\ UNCHANGED <<i, j>>

\* Lines 141-160: the dimensions, their log line, the viewport geometry.
Start ==
  /\ pc = "start"
  /\ IF pixel00_loc.exc # "none"
       THEN /\ pc' = "raised"
            /\ fds' = print(log(fds, DimensionsMsg), "stderr",
                            <<"Traceback (most recent call last):", pixel00_loc.exc>>)
       ELSE /\ pc' = "header"
            /\ fds' = log(fds, DimensionsMsg)
  /\ UNCHANGED <<i, j, heap, call, ret>>

\* Lines 162-163.
Header ==
  /\ pc = "header"
  /\ fds' = print(fds, "stdout", HeaderLines)
  /\ j' = 0
  /\ pc' = "row"
  /\ UNCHANGED <<i, heap, call, ret>>

\* Lines 164-165: the next row, or the end of the outer loop.
Row ==
  /\ pc = "row"
  /\ IF j < img_height
       THEN /\ fds' = log(fds, ScanlinesMsg(j))
            /\ i' = 0
            /\ pc' = "col"
            /\ j' = j
       ELSE /\ pc' = "end"
            /\ UNCHANGED <<i, j, fds>>
  /\ UNCHANGED <<heap, call, ret>>

Col_transposed ==
  /\ pc = "col"
  /\ IF i < img_width
       THEN LET c == pixel_color(j, i)
            IN  IF c.exc # "none"
                  THEN Uncaught(c.exc)
                  ELSE /\ fds' = write_color(fds, c.val, "stdout")
                       /\ i' = i + 1
                       /\ UNCHANGED <<j, pc>>
       ELSE /\ j' = j + 1
            /\ pc' = "row"
            /\ UNCHANGED <<i, fds>>
  /\ UNCHANGED <<heap, call, ret>>

\* Lines 166-171: the next pixel of the row, or the end of the inner loop.
Col ==
  /\ pc = "col"
  /\ IF i < img_width
       THEN LET c == pixel_color(i, j)
            IN  IF c.exc # "none"
                  THEN Uncaught(c.exc)
                  ELSE /\ fds' = write_color(fds, c.val, "stdout")
                       /\ i' = i + 1
                       /\ UNCHANGED <<j, pc>>
       ELSE /\ j' = j + 1
            /\ pc' = "row"
            /\ UNCHANGED <<i, fds>>
  /\ UNCHANGED <<heap, call, ret>>

\* Line 172.
End ==
  /\ pc = "end"
  /\ fds' = log(fds, "Done")
  /\ pc' = "done"
  /\ UNCHANGED <<i, j, heap, call, ret>>

NoSource == [op |-> "none", id |-> 0, arg |-> PyNone]

NoCall == [op |-> "none", id |-> 0, arg |-> PyNone, pre |-> <<>>, from |-> NoSource]

Init ==
  /\ pc = "start"
  /\ i = 0
  /\ j = 0
  /\ fds = [stdout |-> EmptyStream, stderr |-> EmptyStream, buf |-> EmptyStream]
  /\ heap = <<>>
  /\ call = NoCall
  /\ ret = Ok(PyNone)

Next == Start \/ Header \/ Row \/ Col \/ End

Spec == Init /\ [][Next]_vars

\* ------------------------------------------------- the library, called
\* The library's operations called one after another on two vectors, as a
\* caller or a test of main.py would (pc = "lib": __main__ is not run).
\* write_color is handed a fresh text buffer as its fp, held in fds.buf.
Comp == {Q(k, CompDen) : k \in (0 - CompDen) .. CompDen}

\* A channel just below 1.0.
NearOne == <<999, 1000>>

InitVecs ==
  {<<x, y, z>> : x \in Comp, y \in Comp, z \in Comp}
    \cup {<<NearOne, NearOne, NearOne>>}

InitObjs == {[cls |-> c, e |-> v] : c \in {"Vec3", "Color"}, v \in InitVecs}

ArgObjs == {Vec3(<<1, 2>>, QOne, QNeg(QOne)), Color(<<1, 2>>, <<7, 10>>, QOne)}

Scalars ==
  {PyIntVal(0), PyIntVal(2), PyFloat(QZero), PyFloat(<<1, 2>>), PyFloat(<<2, 1>>)}

Ids == 1 .. 2

\* An argument as the callee sees it: the object a reference names.
Deref(h, v) == IF v.cls = "ref" THEN h[v.id] ELSE v

\* What every call leaves behind: the call made, the heap before it and, for
\* a call on the object the last call returned, that call.
CalledOn(op, id, arg, from) ==
  /\ pc = "lib"
  /\ call' = [op |-> op, id |-> id, arg |-> arg, pre |-> heap, from |-> from]
  /\ UNCHANGED <<pc, i, j>>

Called(op, id, arg) == CalledOn(op, id, arg, NoSource)

NoOutput == fds' = [fds EXCEPT !.buf = EmptyStream]

\* v += w
Call_iadd ==
  \E a \in Ids, b \in Ids :
    LET r == Vec3_iadd(heap, a, heap[b])
    IN  /\ Called("iadd", a, PyRef(b))
        /\ heap' = r.heap
        /\ ret' = r.out
        /\ NoOutput

\* v *= t
Call_imul ==
  \E a \in Ids, t \in Scalars :
    LET r == Vec3_imul(heap, a, t)
    IN  /\ Called("imul", a, t)
        /\ heap' = r.heap
        /\ ret' = r.out
        /\ NoOutput

\* v * other
Call_mul ==
  \E a \in Ids, other \in Scalars \cup {PyRef(b) : b \in Ids} :
    /\ Called("mul", a, other)
    /\ ret' = Mul(heap[a], Deref(heap, other))
    /\ NoOutput
    /\ UNCHANGED heap

\* v / t
Call_truediv ==
  \E a \in Ids, t \in Scalars :
    /\ Called("truediv", a, t)
    /\ ret' = Vec3_truediv(heap[a], t)
    /\ NoOutput
    /\ UNCHANGED heap

Call_unit_vector ==
  \E a \in Ids :
    /\ Called("unit_vector", a, PyNone)
    /\ ret' = unit_vector(heap[a])
    /\ NoOutput
    /\ UNCHANGED heap

\* ray_color(Ray(origin, v))
Call_ray_color ==
  \E a \in Ids :
    /\ Called("ray_color", 0, PyRef(a))
    /\ ret' = ray_color(Ray(Point3(QZero, QZero, QZero), heap[a]))
    /\ NoOutput
    /\ UNCHANGED heap

\* c.write_color(fp), c a heap object (a in Ids) or the object the last call
\* returned (a = 0).  Only Color has the method.
Call_write_color ==
  \E a \in {0} \cup Ids :
    /\ a = 0 => ret.exc = "none" /\ IsVec3(ret.val)
    /\ LET self == IF a = 0 THEN ret.val ELSE heap[a]
       IN  /\ CalledOn("write_color", a, self,
                    IF a = 0 THEN [op |-> call.op, id |-> call.id, arg |-> call.arg]
                    ELSE NoSource)
           /\ IF IsColor(self)
                THEN /\ fds' = write_color([fds EXCEPT !.buf = EmptyStream], self, "buf")
                     /\ ret' = Ok(PyNone)
                ELSE /\ NoOutput
                     /\ ret' = Raise("AttributeError")
    /\ UNCHANGED heap

InitLib ==
  /\ pc = "lib"
  /\ i = 0
  /\ j = 0
  /\ fds = [stdout |-> EmptyStream, stderr |-> EmptyStream, buf |-> EmptyStream]
  /\ heap \in {<<v, w>> : v \in InitObjs, w \in ArgObjs}
  /\ call = NoCall
  /\ ret = Ok(PyNone)

NextLib ==
  \/ Call_iadd
  \/ Call_imul
  \/ Call_mul
  \/ Call_truediv
  \/ Call_unit_vector
  \/ Call_ray_color
  \/ Call_write_color

SpecLib == InitLib /\ [][NextLib]_vars

\* =============================================================== claims
\* The n-th stream's content as the formulas read it.
ColorLines == fds.stdout.n - Len(HeaderLines)

\* The text write_color prints for pixel (col, row).
PixelLine(col, row) == ColorLine(pixel_color(col, row).val)

\* ------------------------------------------------------------------ C1
\* C1 (as claimed): the image stream is the header P3 / 400 225 / 255
\* followed by exactly 400 * 225 = 90000 color lines and nothing else.
C1_Header400x225 ==
  /\ fds.stdout.n > 0 =>
       /\ Len(fds.stdout.head) >= 3
       /\ SubSeq(fds.stdout.head, 1, 3) = <<"P3", "400 225", "255">>
  /\ pc = "done" => fds.stdout.n = 3 + 90000

\* ------------------------------------------------------------------ C2
\* C2: the header declares img_width x img_height, and every line written
\* to the image stream after it is, for k the number of color lines already
\* written, the color of pixel column k mod W, row k div W, with k < W * H;
\* lines are only ever appended, one per step; the finished run has written
\* exactly W * H of them.
C2_Step ==
  LET W == img_width
      H == img_height
      k == ColorLines
  IN  /\ fds'.stdout.n >= fds.stdout.n
      /\ (fds.stdout.n = 0 /\ fds'.stdout.n > 0) =>
            /\ fds'.stdout.n = 3
            /\ fds'.stdout.head = <<"P3", ToString(W) \o " " \o ToString(H), "255">>
      /\ (fds.stdout.n > 0 /\ fds'.stdout.n # fds.stdout.n) =>
            /\ fds'.stdout.n = fds.stdout.n + 1
            /\ k < W * H
            /\ pixel_color(k % W, k \div W).exc = "none"
            /\ fds'.stdout.last = PixelLine(k % W, k \div W)
      /\ pc' = "done" => fds'.stdout.n = 3 + W * H

C2_RowMajorOrder == [][C2_Step]_vars

\* The last pixel of the last row has been written, as line W * H.
C2_Witness ==
  /\ pc = "done"
  /\ ColorLines = img_width * img_height
  /\ fds.stdout.last = PixelLine(img_width - 1, img_height - 1)
  /\ PixelLine(img_width - 1, img_height - 1) # PixelLine(0, 0)

\* ------------------------------------------------------------------ C3
LogMessages ==
  {DimensionsMsg, "Done"} \cup {ScanlinesMsg(r) : r \in 0 .. img_height - 1}

C3_Separate ==
  /\ fds.stdout.last \notin LogMessages
  /\ \A k \in 1 .. Len(fds.stdout.head) : fds.stdout.head[k] \notin LogMessages
  /\ fds.stdout.n >= 3 => SubSeq(fds.stdout.head, 1, 3) = HeaderLines
  /\ fds.stderr.n > 0 =>
       /\ fds.stderr.last \in LogMessages
       /\ fds.stderr.head[1] = DimensionsMsg
       /\ \A k \in 1 .. Len(fds.stderr.head) : fds.stderr.head[k] \in LogMessages

C3_Order ==
  LET W == img_width
      H == img_height
  IN  CASE pc = "start"  -> fds.stderr.n = 0 /\ fds.stdout.n = 0
        [] pc = "header" -> fds.stderr.n = 1 /\ fds.stdout.n = 0
        [] pc = "row"    -> /\ fds.stderr.n = 1 + j
                            /\ ColorLines = j * W
        [] pc = "col"    -> /\ fds.stderr.n = 2 + j
                            /\ fds.stderr.last = ScanlinesMsg(j)
                            /\ i <= W
                            /\ ColorLines = j * W + i
        [] pc = "end"    -> /\ fds.stderr.n = 1 + H
                            /\ ColorLines = H * W
        [] pc = "done"   -> /\ fds.stderr.n = 2 + H
                            /\ fds.stderr.last = "Done"
                            /\ ColorLines = H * W
        [] OTHER         -> FALSE

\* The steps the run has left: a row is its log step, img_width pixels and
\* the step that leaves the inner loop.
StepsLeft ==
  LET W == img_width
      H == img_height
      row(r) == 2 + (H - r) * (W + 2)
  IN  CASE pc = "start"  -> row(0) + 2
        [] pc = "header" -> row(0) + 1
        [] pc = "row"    -> row(j)
        [] pc = "col"    -> row(j) - 1 - i
        [] pc = "end"    -> 1
        [] OTHER         -> 0

\* C3: log messages reach only the diagnostic stream, the header and the
\* color lines only the image stream; the diagnostic stream holds the
\* dimensions first, then one "Scanlines remaining" message per row, written
\* when all color lines of the rows before it and none of its own are
\* written; and the run ends, with "Done" after the last color line: no
\* exception ends it early (C3_Order allows no pc = "raised"), and every
\* step leaves one step fewer, none being left only at pc = "done".
C3_DiagnosticStream ==
  /\ [](C3_Separate /\ C3_Order /\ (StepsLeft = 0 <=> pc = "done"))
  /\ [][StepsLeft' = StepsLeft - 1 /\ StepsLeft' >= 0]_vars

\* The second row's message is out, the first row's lines all written and
\* none of the second row's.
C3_Witness ==
  /\ pc = "col"
  /\ j = 1
  /\ i = 0
  /\ fds.stderr.last = "Scanlines remaining: 255 "
  /\ fds.stderr.n = 3
  /\ ColorLines = img_width

\* ------------------------------------------------------------------ C9
InsideViewport(p) ==
  /\ QLt(QAbs(p.e[1]), QMul(viewport_width, <<1, 2>>))
  /\ QLt(QAbs(p.e[2]), QMul(viewport_height, <<1, 2>>))
  /\ p.e[3] = QNeg(focal_length)

\* C9 (as claimed): the loop visits the pixel counts the viewport was divided
\* by, so every pixel_center it visits lies inside the viewport rectangle.
C9_PixelsInsideViewport ==
  (pc = "col" /\ i < img_width) =>
     /\ i < image_width
     /\ j < image_height
     /\ InsideViewport(pixel_center(i, j).val)

\* ----------------------------------------------------------------- C10
\* C10: for every pixel the loop visits, the ray has origin camera_center and
\* a direction pixel_center - camera_center whose z is -focal_length; the
\* direction is not the zero vector, its length (the divisor of unit_vector)
\* is not zero, and the run never ends in an exception.
C10_DirectionNeverZero ==
  /\ pc # "raised"
  /\ (pc = "col" /\ i < img_width) =>
       LET d == ray_direction(i, j)
       IN  /\ d.exc = "none"
           /\ camera_center.e = <<QZero, QZero, QZero>>
           /\ d.val.e[3] = QNeg(focal_length)
           /\ d.val.e[3] = <<-1, 1>>
           /\ d.val.e # <<QZero, QZero, QZero>>
           /\ len_squared(d.val) # QZero
           /\ length(d.val) # QZero

\* The loop is at its last pixel.
C10_Witness ==
  /\ pc = "col"
  /\ j = img_height - 1
  /\ i = img_width - 1
  /\ ray_direction(i, j).val.e[3] = <<-1, 1>>

\* ------------------------------------------------------------------ C4
\* 0.0 <= c < 1.0
InUnit(c) == c[1] >= 0 /\ c[1] < c[2]

\* a / b <= c / d for a, c >= 0 and b, d > 0, by their continued fractions
\* (no product is formed).
RECURSIVE FracLe(_, _, _, _)
FracLe(a, b, c, d) ==
  IF a \div b # c \div d THEN a \div b < c \div d
  ELSE IF a % b = 0 THEN TRUE
  ELSE IF c % d = 0 THEN FALSE
  ELSE FracLe(d, c % d, b, a % b)

\* floor(255.999 * c): the k in 0 .. 255 with k <= 255.999 * c < k + 1, that
\* is k / 255.999 <= c < (k + 1) / 255.999.
FloorByte(c) ==
  CHOOSE k \in 0 .. 255 :
    /\ FracLe(1000 * k, 255999, c[1], c[2])
    /\ ~FracLe(1000 * (k + 1), 255999, c[1], c[2])

\* C4: write_color on a color whose channels are all in [0.0, 1.0) returns
\* None and writes one line, the three integers floor(255.999 * c), each in
\* 0 .. 255, in r g b order with single spaces between; (0,0,0) gives
\* "0 0 0", (0.5,0.5,0.5) "127 127 127", channels just below 1.0
\* "255 255 255".
C4_WriteColor ==
  (/\ call.op = "write_color"
   /\ IsColor(call.arg)
   /\ \A k \in 1 .. 3 : InUnit(call.arg.e[k])) =>
     LET line == ToString(FloorByte(call.arg.e[1])) \o " "
                   \o ToString(FloorByte(call.arg.e[2])) \o " "
                   \o ToString(FloorByte(call.arg.e[3]))
     IN  /\ ret = Ok(PyNone)
         /\ fds.buf = [head |-> <<line>>, n |-> 1, last |-> line]
         /\ call.arg.e = <<QZero, QZero, QZero>> => line = "0 0 0"
         /\ call.arg.e = <<<<1, 2>>, <<1, 2>>, <<1, 2>>>> => line = "127 127 127"
         /\ call.arg.e = <<NearOne, NearOne, NearOne>> => line = "255 255 255"

C4_Witness ==
  /\ call.op = "write_color"
  /\ call.arg = Color(NearOne, NearOne, NearOne)
  /\ fds.buf.last = "255 255 255"
  /\ fds.buf.n = 1

\* ------------------------------------------------------------------ C5
StraightUp == <<QZero, QOne, QZero>>

SkyBlue == Color(<<1, 2>>, <<7, 10>>, QOne)

\* The color ray_color returned for the direction (0, 1, 0) has been written.
C5_Written ==
  /\ call.op = "write_color"
  /\ call.id = 0
  /\ call.from.op = "ray_color"
  /\ call.pre[call.from.arg.id].e = StraightUp

\* C5 (as claimed): ray_color of the direction (0,1,0) is skyblue, and
\* write_color writes it as "127 178 255".
C5_StraightUp178 ==
  /\ (call.op = "ray_color" /\ call.pre[call.arg.id].e = StraightUp) =>
        ret = Ok(SkyBlue)
  /\ C5_Written => call.arg = SkyBlue /\ fds.buf.last = "127 178 255"

\* C5 (amended): ray_color of the direction (0,1,0) is skyblue,
\* (0.5, 0.7, 1.0), and write_color writes it as the one line "127 179 255".
C5_StraightUp179 ==
  /\ (call.op = "ray_color" /\ call.pre[call.arg.id].e = StraightUp) =>
        ret = Ok(SkyBlue)
  /\ C5_Written =>
        /\ call.arg = SkyBlue
        /\ fds.buf = [head |-> <<"127 179 255">>, n |-> 1, last |-> "127 179 255"]

C5_Witness == C5_Written /\ fds.buf.last = "127 179 255"

\* ------------------------------------------------------------------ C6
Others(id) == Ids \ {id}

\* C6 (as claimed): v += w and v *= t raise nothing, set the receiver's
\* components to the sums, respectively the scaled values, return the
\* receiver itself and leave every other vector unchanged.
C6_InPlaceOps ==
  /\ call.op = "iadd" =>
       LET v == call.pre[call.id]
           w == call.pre[call.arg.id]
       IN  /\ ret = Ok(PyRef(call.id))
           /\ heap[call.id] =
                [cls |-> v.cls,
                 e |-> <<QAdd(v.e[1], w.e[1]), QAdd(v.e[2], w.e[2]),
                         QAdd(v.e[3], w.e[3])>>]
           /\ \A o \in Others(call.id) : heap[o] = call.pre[o]
  /\ call.op = "imul" =>
       LET v == call.pre[call.id]
           t == call.arg.q
       IN  /\ ret = Ok(PyRef(call.id))
           /\ heap[call.id] =
                [cls |-> v.cls,
                 e |-> <<QMul(v.e[1], t), QMul(v.e[2], t), QMul(v.e[3], t)>>]
           /\ \A o \in Others(call.id) : heap[o] = call.pre[o]

\* ------------------------------------------------------------------ C7
\* C7 (as claimed): Color * Color returns the Color of the per-channel
\* products, Color * scalar the Color of the scaled channels; nothing is
\* raised and no operand is modified.
C7_ColorMul ==
  (call.op = "mul" /\ IsColor(call.pre[call.id])) =>
     LET self == call.pre[call.id]
         other == Deref(call.pre, call.arg)
     IN  /\ IsColor(other) =>
              ret = Ok(Color(QMul(self.e[1], other.e[1]), QMul(self.e[2], other.e[2]),
                             QMul(self.e[3], other.e[3])))
         /\ IsScalar(other) =>
              ret = Ok(Color(QMul(self.e[1], other.q), QMul(self.e[2], other.q),
                             QMul(self.e[3], other.q)))
         /\ (IsColor(other) \/ IsScalar(other)) => heap = call.pre

\* ------------------------------------------------------------------ C8
\* v / t with t zero, or unit_vector() of a vector of length zero, was called.
C8_Degenerate ==
  \/ call.op = "truediv" /\ call.arg.q = QZero
  \/ call.op = "unit_vector" /\ length(call.pre[call.id]) = QZero

\* C8 (as claimed): the degenerate division raises nothing and returns a
\* vector (of Inf or NaN components).
C8_DivisionByZeroSilent == C8_Degenerate => ret.exc = "none" /\ IsVec3(ret.val)

\* C8 (amended): the degenerate division is not guarded by a check of its
\* own, but the reciprocal 1.0 / t it evaluates raises ZeroDivisionError: no
\* vector is returned and no operand is changed.
C8_DivisionByZeroRaises ==
  C8_Degenerate => ret = Raise("ZeroDivisionError") /\ heap = call.pre

C8_Witness ==
  /\ call.op = "unit_vector"
  /\ call.pre[call.id].e = <<QZero, QZero, QZero>>
  /\ ret.exc = "ZeroDivisionError"

====
